---------------------------- MODULE Spec2Model ----------------------------
(***************************************************************************)
(* Model of the PagerDuty MCP tool layer: the alert and event              *)
(* orchestration query models, the paginated list fetch and the            *)
(* single-entity fetches with their response-shape normalization.          *)
(*                                                                         *)
(* Encoding of Python values:                                              *)
(*   - Optional[T]: None is the empty tuple <<>>, a value x is <<x>>;      *)
(*   - list[T]: a sequence; str: a string; dict: a function on its keys;   *)
(*   - keyword arguments: a function on the names that were passed.        *)
(***************************************************************************)
EXTENDS Integers, Sequences, FiniteSets, TLC

VARIABLES
    pc,        \* position of the caller: what was done last
    kwargs,    \* keyword arguments given to the query model constructor
    query,     \* Optional: the constructed query object
    params,    \* Optional: the wire parameter mapping derived from the query
    raised,    \* Optional: the error that ended the operation
    cls,       \* the query model class being constructed, "" before any
    tool,      \* the tool function invoked, "" before any
    args,      \* the identifiers the tool was called with
    upstream,  \* what the HTTP collaborator holds for this invocation
    request,   \* Optional: what the collaborator was last asked for
    cursor,    \* paginate: the number of the page the next fetch returns
    has_more,  \* paginate: whether the last page fetched signalled more pages
    results,   \* paginate: the items accumulated so far
    result,    \* Optional: the value the tool returned
    calls,     \* the number of calls the tool made to rget or to paginate
    fault      \* Optional: the error the HTTP collaborator raised

queryVars == <<cls, kwargs, query, params>>
toolVars == <<tool, args, upstream, request, cursor, has_more, results, result, calls, fault>>
vars == <<pc, raised, queryVars, toolVars>>

None == <<>>
Some(x) == <<x>>
IsNone(o) == o = <<>>
Get(o) == o[1]

EmptyDict == <<>>

(***************************************************************************)
(* Bounds of the model                                                     *)
(***************************************************************************)
\* longest list given as a list-valued filter (status, severity, ...)
MaxListLen == 1
\* most pages the upstream holds before it ends or starts over
MaxPages == 2
\* most items on one upstream page
MaxPageSize == 2

(***************************************************************************)
(* pagerduty_mcp/models/alerts.py                                          *)
(***************************************************************************)
MAX_RESULTS == 1000

AlertStatus == {"triggered", "resolved"}
AlertSeverity == {"info", "warning", "error", "critical"}
AlertSortBy == {"created_at:asc", "created_at:desc", "resolved_at:asc", "resolved_at:desc"}

\* sequences over S of length at most n
RECURSIVE SeqsUpTo(_, _)
SeqsUpTo(S, n) ==
    IF n = 0 THEN {<<>>}
    ELSE LET shorter == SeqsUpTo(S, n - 1)
         IN shorter \cup {Append(s, x) : s \in {t \in shorter : Len(t) = n - 1}, x \in S}

Optional(S) == {None} \cup {Some(x) : x \in S}

\* str(n) zero-padded to w digits, as "%0wd" % n
RECURSIVE ZeroPad(_, _)
ZeroPad(s, w) == IF Len(s) >= w THEN s ELSE ZeroPad("0" \o s, w)

Pad(n, w) == ZeroPad(ToString(n), w)

\* datetime.isoformat(): YYYY-MM-DDTHH:MM:SS[.ffffff][+HH:MM]
isoformat(dt) ==
    LET date == Pad(dt.year, 4) \o "-" \o Pad(dt.month, 2) \o "-" \o Pad(dt.day, 2)
        time == Pad(dt.hour, 2) \o ":" \o Pad(dt.minute, 2) \o ":" \o Pad(dt.second, 2)
        frac == IF dt.microsecond # 0 THEN "." \o Pad(dt.microsecond, 6) ELSE ""
        off  == IF IsNone(dt.utcoffset) THEN ""
                ELSE LET m == Get(dt.utcoffset)
                         a == IF m < 0 THEN 0 - m ELSE m
                     IN (IF m < 0 THEN "-" ELSE "+")
                            \o Pad(a \div 60, 2) \o ":" \o Pad(a % 60, 2)
    IN date \o "T" \o time \o frac \o off

\* sep.join(seq)
RECURSIVE Join(_, _)
Join(sep, seq) ==
    IF seq = <<>> THEN ""
    ELSE IF Len(seq) = 1 THEN seq[1]
    ELSE seq[1] \o sep \o Join(sep, Tail(seq))

\* the value a field takes: the argument passed, else the field's default
FieldValue(kw, name, default) == IF name \in DOMAIN kw THEN kw[name] ELSE default

\* Optional[list[Literal[...]]]: None, or a list of members of the literal set
ValidOptionalList(v, literals) ==
    IsNone(v) \/ \A i \in 1..Len(Get(v)) : Get(v)[i] \in literals

\* Optional[int] with Field(ge=lo, le=hi): the bounds constrain integers only
ValidOptionalInt(v, lo, hi) == IsNone(v) \/ (Get(v) >= lo /\ Get(v) <= hi)

\* as AlertQueryFields, with None as the default of limit
AlertQueryFields_limit_default_None(kw) ==
    [status      |-> FieldValue(kw, "status", None),
     severity    |-> FieldValue(kw, "severity", None),
     since       |-> FieldValue(kw, "since", None),
     until       |-> FieldValue(kw, "until", None),
     service_ids |-> FieldValue(kw, "service_ids", None),
     limit       |-> FieldValue(kw, "limit", None),
     sort_by     |-> FieldValue(kw, "sort_by", None)]

\* the fields of AlertQuery(**kw) after defaults are applied
AlertQueryFields(kw) ==
    [status      |-> FieldValue(kw, "status", None),
     severity    |-> FieldValue(kw, "severity", None),
     since       |-> FieldValue(kw, "since", None),
     until       |-> FieldValue(kw, "until", None),
     service_ids |-> FieldValue(kw, "service_ids", None),
     limit       |-> FieldValue(kw, "limit", Some(MAX_RESULTS)),
     sort_by     |-> FieldValue(kw, "sort_by", None)]

\* as AlertQueryLimitValid, with the lower bound written ge=0
AlertQueryLimitValid_ge0(limit) == ValidOptionalInt(limit, 0, MAX_RESULTS)

AlertQueryLimitValid(limit) == ValidOptionalInt(limit, 1, MAX_RESULTS)

\* pydantic validation of AlertQuery(**kw)
AlertQueryValid(kw) ==
    LET f == AlertQueryFields(kw)
    IN /\ ValidOptionalList(f.status, AlertStatus)
       /\ ValidOptionalList(f.severity, AlertSeverity)
       /\ AlertQueryLimitValid(f.limit)
       /\ ValidOptionalList(f.sort_by, AlertSortBy)

\* as TruthyList, with the test written "is not None"
TruthyList_is_not_None(v) == ~IsNone(v)

\* bool(x) of an Optional[list]: None and the empty list are falsy
TruthyList(v) == ~IsNone(v) /\ Get(v) # <<>>

\* bool(x) of an Optional[datetime]: every datetime is truthy
TruthyDatetime(v) == ~IsNone(v)

\* params[key] = value when cond, else nothing
Entry(cond, key, value) == IF cond THEN key :> value ELSE EmptyDict

\* as AlertQuery_to_params, with the limit sent as a wire parameter
AlertQuery_to_params_with_limit(q) ==
    Entry(TruthyList(q.status), "statuses[]", Get(q.status))
    @@ Entry(TruthyList(q.severity), "severities[]", Get(q.severity))
    @@ Entry(TruthyDatetime(q.since), "since", isoformat(Get(q.since)))
    @@ Entry(TruthyDatetime(q.until), "until", isoformat(Get(q.until)))
    @@ Entry(TruthyList(q.service_ids), "service_ids[]", Get(q.service_ids))
    @@ Entry(~IsNone(q.limit), "limit", Get(q.limit))
    @@ Entry(TruthyList(q.sort_by), "sort_by", Join(",", Get(q.sort_by)))

AlertQuery_to_params(q) ==
    Entry(TruthyList(q.status), "statuses[]", Get(q.status))
    @@ Entry(TruthyList(q.severity), "severities[]", Get(q.severity))
    @@ Entry(TruthyDatetime(q.since), "since", isoformat(Get(q.since)))
    @@ Entry(TruthyDatetime(q.until), "until", isoformat(Get(q.until)))
    @@ Entry(TruthyList(q.service_ids), "service_ids[]", Get(q.service_ids))
    @@ Entry(TruthyList(q.sort_by), "sort_by", Join(",", Get(q.sort_by)))

(***************************************************************************)
(* pagerduty_mcp/models/event_orchestrations.py: EventOrchestrationQuery   *)
(***************************************************************************)
\* pagerduty_mcp/models/base.py. The tests fix only that the default is a
\* valid limit and that 50 is one; no property below depends on the values.
DEFAULT_PAGINATION_LIMIT == 20
MAXIMUM_PAGINATION_LIMIT == 100

\* the sort orders the tests construct a query with
EventOrchestrationSortBy == {"name:asc", "created_at:desc"}

\* Optional[Literal[...]]: None, or a member of the literal set
ValidOptionalLiteral(v, literals) == IsNone(v) \/ Get(v) \in literals

EventOrchestrationQueryFields(kw) ==
    [limit   |-> FieldValue(kw, "limit", Some(DEFAULT_PAGINATION_LIMIT)),
     offset  |-> FieldValue(kw, "offset", None),
     sort_by |-> FieldValue(kw, "sort_by", Some("name:asc"))]

\* as EventOrchestrationQueryValid, with no lower bound on offset
EventOrchestrationQueryValid_any_offset(kw) ==
    LET f == EventOrchestrationQueryFields(kw)
    IN /\ ValidOptionalInt(f.limit, 1, MAXIMUM_PAGINATION_LIMIT)
       /\ ValidOptionalLiteral(f.sort_by, EventOrchestrationSortBy)

EventOrchestrationQueryValid(kw) ==
    LET f == EventOrchestrationQueryFields(kw)
    IN /\ ValidOptionalInt(f.limit, 1, MAXIMUM_PAGINATION_LIMIT)
       /\ IsNone(f.offset) \/ Get(f.offset) >= 0
       /\ ValidOptionalLiteral(f.sort_by, EventOrchestrationSortBy)

\* as EventOrchestrationQuery_to_params, with the tests written "if self.x:"
EventOrchestrationQuery_to_params_truthy(q) ==
    Entry(~IsNone(q.limit) /\ Get(q.limit) # 0, "limit", Get(q.limit))
    @@ Entry(~IsNone(q.offset) /\ Get(q.offset) # 0, "offset", Get(q.offset))
    @@ Entry(~IsNone(q.sort_by) /\ Get(q.sort_by) # "", "sort_by", Get(q.sort_by))

EventOrchestrationQuery_to_params(q) ==
    Entry(~IsNone(q.limit), "limit", Get(q.limit))
    @@ Entry(~IsNone(q.offset), "offset", Get(q.offset))
    @@ Entry(~IsNone(q.sort_by), "sort_by", Get(q.sort_by))

(***************************************************************************)
(* Raw JSON and its validation into records                                *)
(*                                                                         *)
(* A JSON value is a function from key paths to leaves: a scalar (or a     *)
(* list, or an empty object) is a single leaf at the empty path, an object *)
(* maps the path of each of its leaves.  A leaf is [t |-> type, v |-> text]*)
(***************************************************************************)
Leaf(t, v) == [t |-> t, v |-> v]
Scalar(t, v) == <<>> :> Leaf(t, v)
JStr(v) == Scalar("str", v)
JInt(v) == Scalar("int", v)
JList(v) == Scalar("list", v)
JNull == Scalar("null", "")
JEmptyObject == Scalar("dict", "")

\* isinstance(j, dict)
IsDict(j) == <<>> \notin DOMAIN j \/ j[<<>>].t = "dict"

\* key in j, for a dict j
HasKey(j, key) == \E p \in DOMAIN j : p # <<>> /\ p[1] = key

\* j[key]
Item(j, key) ==
    LET under == {p \in DOMAIN j : p # <<>> /\ p[1] = key}
    IN [q \in {Tail(p) : p \in under} |-> j[<<key>> \o q]]

\* {key: j}
Wrap(key, j) == [p \in {<<key>> \o q : q \in DOMAIN j} |-> j[Tail(p)]]

\* the type of the value under key, "absent" when the key is missing
TypeAt(j, key) ==
    IF ~HasKey(j, key) THEN "absent"
    ELSE IF <<key>> \in DOMAIN j THEN j[<<key>>].t
    ELSE "dict"

\* the timestamps pydantic parses into a datetime
DatetimeStrings == {"2023-06-15T14:30:00Z", "2021-11-18T16:42:01Z"}

\* whether the value under key is accepted as a field of the given kind
FieldAccepts(j, key, kind) ==
    LET t == TypeAt(j, key)
        v == j[<<key>>].v
    IN CASE kind = "str"      -> t = "str"
         [] kind = "int"      -> t = "int"
         [] kind = "datetime" -> t = "str" /\ v \in DatetimeStrings
         [] kind = "dict"     -> t = "dict"
         [] kind = "list"     -> t = "list"
         [] kind = "status"   -> t = "str" /\ v \in AlertStatus
         [] kind = "severity" -> t = "str" /\ v \in AlertSeverity
         [] kind = "router"   -> t = "str" /\ v = "router"

\* validation of the dict j against a model with the given required and
\* optional (default None) fields, each a function from field name to kind
ModelAccepts(j, required, optional) ==
    /\ IsDict(j)
    /\ \A f \in DOMAIN required : FieldAccepts(j, f, required[f])
    /\ \A f \in DOMAIN optional :
            TypeAt(j, f) \in {"absent", "null"} \/ FieldAccepts(j, f, optional[f])

\* the record of a validated dict: each declared field, None when absent or
\* null; keys that are no field of the model are ignored
ModelRecord(j, required, optional, type) ==
    [f \in DOMAIN required \cup DOMAIN optional \cup {"type"} |->
        IF f = "type" /\ type # "" THEN JStr(type)
        ELSE IF TypeAt(j, f) \in {"absent", "null"} THEN JNull
        ELSE Item(j, f)]

\* Model.model_validate(j): the record, or a ValidationError
Validated(record) == [ok |-> TRUE, record |-> record]
ValidationError == [ok |-> FALSE, record |-> EmptyDict]

AlertRequired ==
    [id |-> "str", summary |-> "str", status |-> "status", severity |-> "severity",
     created_at |-> "datetime"]
AlertOptional ==
    [resolved_at |-> "datetime", service |-> "dict", html_url |-> "str",
     incident |-> "dict", body |-> "dict", first_trigger_log_entry |-> "dict"]

Alert_model_validate(j) ==
    IF ModelAccepts(j, AlertRequired, AlertOptional)
    THEN Validated(ModelRecord(j, AlertRequired, AlertOptional, "alert"))
    ELSE ValidationError

EventOrchestrationRequired ==
    [id |-> "str", name |-> "str", routes |-> "int", created_at |-> "datetime",
     updated_at |-> "datetime"]
EventOrchestrationOptional ==
    [description |-> "str", team |-> "dict", integrations |-> "list",
     created_by |-> "dict", updated_by |-> "dict", version |-> "str"]

EventOrchestration_model_validate(j) ==
    IF ModelAccepts(j, EventOrchestrationRequired, EventOrchestrationOptional)
    THEN Validated(ModelRecord(j, EventOrchestrationRequired, EventOrchestrationOptional,
                               "event_orchestration"))
    ELSE ValidationError

EventOrchestrationPathRequired ==
    [type |-> "router", parent |-> "dict", self |-> "str", sets |-> "list",
     catch_all |-> "dict"]
EventOrchestrationPathOptional ==
    [created_at |-> "datetime", created_by |-> "dict", updated_at |-> "datetime",
     updated_by |-> "dict", version |-> "str"]

\* EventOrchestrationRouter.model_validate(j): j["orchestration_path"] is
\* validated as the path record
EventOrchestrationRouter_model_validate(j) ==
    IF /\ IsDict(j)
       /\ HasKey(j, "orchestration_path")
       /\ ModelAccepts(Item(j, "orchestration_path"), EventOrchestrationPathRequired,
                       EventOrchestrationPathOptional)
    THEN Validated([orchestration_path |->
                      ModelRecord(Item(j, "orchestration_path"),
                                  EventOrchestrationPathRequired,
                                  EventOrchestrationPathOptional, "")])
    ELSE ValidationError

\* the payload from_api_response validates: the response itself when it has
\* a top-level orchestration_path, else the response wrapped under that key
RouterNormalized(response) ==
    IF IsDict(response) /\ HasKey(response, "orchestration_path")
    THEN response
    ELSE Wrap("orchestration_path", response)

EventOrchestrationRouter_from_api_response(response) ==
    EventOrchestrationRouter_model_validate(RouterNormalized(response))

(***************************************************************************)
(* Inputs of the query models                                              *)
(***************************************************************************)
Naive(y, mo, d, h, mi, s) ==
    [year |-> y, month |-> mo, day |-> d, hour |-> h, minute |-> mi, second |-> s,
     microsecond |-> 0, utcoffset |-> None]

\* datetime(2023, 6, 1, 0, 0, 0), datetime(2023, 6, 30, 23, 59, 59) and an
\* aware one with microseconds, 2023-06-15T14:30:00.000250-05:30
SinceSamples == {Naive(2023, 6, 1, 0, 0, 0),
                 [Naive(2023, 6, 15, 14, 30, 0) EXCEPT !.microsecond = 250,
                                                       !.utcoffset = Some(0 - 330)]}
UntilSamples == {Naive(2023, 6, 30, 23, 59, 59)}

StatusSamples == AlertStatus \cup {"acknowledged"}
SeveritySamples == {"critical", "error"}
ServiceIdSamples == {"PSERVICE123"}
SortBySamples == {"created_at:desc", "resolved_at:asc"}
AlertLimitSamples == {0 - 1, 0, 1, 25, MAX_RESULTS, MAX_RESULTS + 1}

\* the keyword arguments AlertQuery is constructed with: limit is passed or
\* left out, every other field is passed (None is its default)
AlertQueryKwargs ==
    LET rest == [status      : Optional(SeqsUpTo(StatusSamples, MaxListLen)),
                 severity    : Optional(SeqsUpTo(SeveritySamples, MaxListLen)),
                 since       : Optional(SinceSamples),
                 until       : Optional(UntilSamples),
                 service_ids : Optional(SeqsUpTo(ServiceIdSamples, MaxListLen)),
                 sort_by     : Optional(SeqsUpTo(SortBySamples, MaxListLen))]
    IN rest \cup {r @@ [limit |-> l] : r \in rest, l \in Optional(AlertLimitSamples)}

EventOrchestrationLimitSamples ==
    {0, 1, DEFAULT_PAGINATION_LIMIT, 50, MAXIMUM_PAGINATION_LIMIT, MAXIMUM_PAGINATION_LIMIT + 1}
OffsetSamples == {0 - 1, 0, 10}
EventOrchestrationSortBySamples == EventOrchestrationSortBy \cup {"invalid_sort"}

\* a function on the keys of the record r that are in keys
Restrict(r, keys) == [k \in keys |-> r[k]]

\* EventOrchestrationQuery is constructed with any subset of its fields passed
EventOrchestrationQueryKwargs ==
    LET full == [limit   : Optional(EventOrchestrationLimitSamples),
                 offset  : Optional(OffsetSamples),
                 sort_by : Optional(EventOrchestrationSortBySamples)]
    IN {Restrict(r, keys) : r \in full, keys \in SUBSET {"limit", "offset", "sort_by"}}

(***************************************************************************)
(* The query models: construction, then to_params                          *)
(***************************************************************************)
\* query = cls(**kw): the validated object, or a ValidationError and no object
Construct(class, kw, valid, fields) ==
    /\ cls' = class
    /\ kwargs' = kw
    /\ params' = None
    /\ UNCHANGED toolVars
    /\ IF valid
       THEN /\ query' = Some(fields)
            /\ raised' = None
            /\ pc' = "constructed"
       ELSE /\ query' = None
            /\ raised' = Some("ValidationError")
            /\ pc' = "raised"

NewAlertQuery ==
    /\ pc = "start"
    /\ \E kw \in AlertQueryKwargs :
        Construct("AlertQuery", kw, AlertQueryValid(kw), AlertQueryFields(kw))

NewEventOrchestrationQuery ==
    /\ pc = "start"
    /\ \E kw \in EventOrchestrationQueryKwargs :
        Construct("EventOrchestrationQuery", kw, EventOrchestrationQueryValid(kw),
                  EventOrchestrationQueryFields(kw))

\* params = query.to_params()
ToParams ==
    /\ pc = "constructed"
    /\ params' = Some(IF cls = "AlertQuery"
                      THEN AlertQuery_to_params(Get(query))
                      ELSE EventOrchestrationQuery_to_params(Get(query)))
    /\ pc' = "mapped"
    /\ UNCHANGED <<cls, kwargs, query, raised, toolVars>>

\* no tool is running
ToolIdle ==
    /\ tool = ""
    /\ args = EmptyDict
    /\ upstream = EmptyDict
    /\ request = None
    /\ cursor = 1
    /\ has_more = TRUE
    /\ results = <<>>
    /\ result = None
    /\ calls = 0
    /\ fault = None

QueryInit ==
    /\ pc = "start"
    /\ cls = ""
    /\ kwargs = EmptyDict
    /\ query = None
    /\ params = None
    /\ raised = None
    /\ ToolIdle

QueryNext == NewAlertQuery \/ NewEventOrchestrationQuery \/ ToParams

QuerySpec == QueryInit /\ [][QueryNext]_vars

(***************************************************************************)
(* The HTTP collaborator's content                                         *)
(***************************************************************************)
\* {k: r[k] for k in r}: the object with the fields of the record r
Obj(r) ==
    [p \in UNION {{<<k>> \o q : q \in DOMAIN r[k]} : k \in DOMAIN r} |-> r[p[1]][Tail(p)]]

\* the object j without the key
Without(j, key) == [p \in {q \in DOMAIN j : q[1] # key} |-> j[p]]

\* {**j, key: value}
With(j, key, value) == Wrap(key, value) @@ Without(j, key)

Reference(id, type) == Obj([id |-> JStr(id), type |-> JStr(type)])

SampleAlert(id) ==
    Obj([id |-> JStr(id), summary |-> JStr("Test Alert"), status |-> JStr("triggered"),
         severity |-> JStr("critical"), created_at |-> JStr("2023-06-15T14:30:00Z"),
         resolved_at |-> JNull, service |-> Reference("PSERVICE123", "service_reference"),
         incident |-> Reference("PINCIDENT123", "incident_reference")])

SampleOrchestration(id) ==
    Obj([id |-> JStr(id), name |-> JStr("Shopping Cart Orchestration"),
         description |-> JStr("Send shopping cart alerts to the right services"),
         team |-> Reference("PQYP5MN", "team_reference"), integrations |-> JList("1"),
         routes |-> JInt("0"), created_at |-> JStr("2021-11-18T16:42:01Z"),
         updated_at |-> JStr("2021-11-18T16:42:01Z"), version |-> JStr("9co0z4b152oICsoV91")])

SampleRouterPath(sets) ==
    Obj([type |-> JStr("router"),
         parent |-> Reference("b02e973d", "event_orchestration_reference"),
         self |-> JStr("https://api.pagerduty.com/event_orchestrations/b02e973d/router"),
         sets |-> JList(sets),
         catch_all |-> Obj([actions |-> Obj([route_to |-> JStr("unrouted")])]),
         created_at |-> JStr("2021-11-18T16:42:01Z"), version |-> JStr("abc123")])

\* what rget answers to get_alert
AlertPayloads ==
    {SampleAlert("PALERT123"),
     Without(SampleAlert("PALERT123"), "service"),
     Without(SampleAlert("PALERT123"), "summary"),
     With(SampleAlert("PALERT123"), "status", JStr("acknowledged")),
     JEmptyObject,
     JList("0")}

\* the field sets an orchestration payload carries, valid and invalid
OrchestrationFieldSets ==
    LET full == SampleOrchestration("b02e973d")
    IN {full,
        With(With(With(With(full, "description", JNull), "team", JNull),
                  "integrations", JNull), "version", JNull),
        Without(full, "team"),
        Without(full, "name"),
        With(full, "routes", JStr("many")),
        With(full, "unknown_field", JStr("x")),
        JEmptyObject}

\* what rget answers to get_event_orchestration: the fields bare, the fields
\* under "orchestration" (alone or beside other keys), and other shapes
OrchestrationPayloads ==
    OrchestrationFieldSets
    \cup {Wrap("orchestration", f) : f \in OrchestrationFieldSets}
    \cup {With(Wrap("orchestration", f), "status", JStr("ok")) : f \in OrchestrationFieldSets}
    \cup {With(SampleOrchestration("b02e973d"), "orchestration",
               Without(SampleOrchestration("b02e973d"), "name")),
          Wrap("orchestration", JNull),
          Wrap("orchestrations", SampleOrchestration("b02e973d")),
          JList("0")}

\* the router path objects a payload carries, valid and invalid
RouterPaths ==
    {SampleRouterPath("1"),
     SampleRouterPath("0"),
     Without(SampleRouterPath("1"), "version"),
     Without(SampleRouterPath("1"), "catch_all"),
     With(SampleRouterPath("1"), "type", JStr("service")),
     JEmptyObject}

\* what rget answers to get_event_orchestration_router
RouterPayloads ==
    RouterPaths
    \cup {Wrap("orchestration_path", path) : path \in RouterPaths}
    \cup {With(Wrap("orchestration_path", path), "status", JStr("ok")) : path \in RouterPaths}
    \cup {Wrap("orchestration_path", JNull), JList("0")}

\* the errors the HTTP collaborator raises: a failed request and a failed
\* connection
CollaboratorErrors == {"HttpError", "ConnectionError"}

RECURSIVE Sum(_)
Sum(seq) == IF seq = <<>> THEN 0 ELSE Head(seq) + Sum(Tail(seq))

\* a list endpoint: the sizes of its pages in page order, whether it is endless
\* (after the last page it starts over and always signals more pages), and the
\* number of the one item that is malformed: none (0) or the last one.  Items
\* are numbered in page order from 1.
ListUpstreams ==
    UNION {{[sizes |-> sz, endless |-> e, bad |-> b] : e \in BOOLEAN, b \in {0, Sum(sz)}} :
              sz \in SeqsUpTo(0..MaxPageSize, MaxPages) \ {<<>>}}

\* the numbers of the items on page c
PageItems(u, c) ==
    LET before == Sum(SubSeq(u.sizes, 1, c - 1))
    IN [k \in 1..u.sizes[c] |-> before + k]

\* whether the upstream signals a further page after page c
PageHasMore(u, c) == u.endless \/ c < Len(u.sizes)

\* the page after page c
PageAfter(u, c) == IF c < Len(u.sizes) THEN c + 1 ELSE 1

\* the raw JSON objects of the items of a list endpoint, by item number: as the
\* endpoint holds them, and malformed (by item number: a required field is
\* missing, a value is outside its enumeration or unparsable, a value has the
\* wrong type)
ItemNumbers == 1..(MaxPages * MaxPageSize)

WellFormedItems ==
    [entity \in {"alerts", "event_orchestrations"} |->
        [i \in ItemNumbers |->
            IF entity = "alerts"
            THEN SampleAlert("PALERT" \o ToString(i))
            ELSE SampleOrchestration("ORCH" \o ToString(i))]]

MalformedItems ==
    [entity \in {"alerts", "event_orchestrations"} |->
        [i \in ItemNumbers |->
            LET item == WellFormedItems[entity][i]
            IN CASE i % 3 = 1 ->
                        Without(item, IF entity = "alerts" THEN "summary" ELSE "name")
                 [] i % 3 = 2 ->
                        IF entity = "alerts"
                        THEN With(item, "status", JStr("acknowledged"))
                        ELSE With(item, "created_at", JStr("yesterday"))
                 [] OTHER ->
                        IF entity = "alerts"
                        THEN With(item, "created_at", JList("0"))
                        ELSE With(item, "routes", JList("0"))]]

\* the raw JSON object of item i of a list endpoint
RawItem(entity, u, i) ==
    LET kind == IF entity = "event_orchestrations" THEN entity ELSE "alerts"
    IN IF i = u.bad THEN MalformedItems[kind][i] ELSE WellFormedItems[kind][i]

(***************************************************************************)
(* pagerduty_mcp/utils.py: paginate                                        *)
(***************************************************************************)
\* the cap of a paginate call that passes no maximum_records
PAGINATE_DEFAULT_MAXIMUM == 100

Min(a, b) == IF a < b THEN a ELSE b

\* seq[:n]
Take(seq, n) == SubSeq(seq, 1, Min(n, Len(seq)))

\* as PaginateAccumulate, with the whole page appended
PaginateAccumulate_whole_page(acc, page, maximum_records) == acc \o page

\* the accumulated items after a page: the page's contribution is truncated so
\* that the total does not exceed the cap
PaginateAccumulate(acc, page, maximum_records) ==
    acc \o Take(page, maximum_records - Len(acc))

\* as PaginateContinues, with the loop left only when no page follows
PaginateContinues_until_no_more(acc, more, maximum_records) == more

\* whether paginate fetches another page
PaginateContinues(acc, more, maximum_records) == Len(acc) < maximum_records /\ more

\* paginate(client, entity, params, maximum_records) starts
PaginateStart(entity, p, maximum_records) ==
    /\ request' = Some([entity |-> entity, params |-> p, maximum_records |-> maximum_records])
    /\ \E u \in ListUpstreams : upstream' = u
    /\ cursor' = 1
    /\ has_more' = TRUE
    /\ results' = <<>>
    /\ result' = None
    /\ raised' = None
    /\ calls' = calls + 1
    /\ fault' = None
    /\ pc' = "paginate"

\* paginate fetches the next page and accumulates its items
FetchPage ==
    /\ pc = "paginate"
    /\ PaginateContinues(results, has_more, Get(request).maximum_records)
    /\ results' = PaginateAccumulate(results, PageItems(upstream, cursor),
                                      Get(request).maximum_records)
    /\ has_more' = PageHasMore(upstream, cursor)
    /\ cursor' = PageAfter(upstream, cursor)
    /\ UNCHANGED <<pc, raised, queryVars, tool, args, upstream, request, result, calls, fault>>

\* the fetch of the next page raises: the error leaves paginate and the list
\* tool, neither of which catches it, and the items accumulated so far are
\* dropped with paginate's frame
FetchPageRaises ==
    /\ pc = "paginate"
    /\ PaginateContinues(results, has_more, Get(request).maximum_records)
    /\ \E e \in CollaboratorErrors :
        /\ fault' = Some(e)
        /\ raised' = Some(e)
    /\ results' = <<>>
    /\ result' = None
    /\ pc' = "raised"
    /\ UNCHANGED <<queryVars, tool, args, upstream, request, cursor, has_more, calls>>

(***************************************************************************)
(* pagerduty_mcp/tools/alerts.py                                           *)
(***************************************************************************)
IncidentIds == {"PINCIDENT123", "PINCIDENT456", ""}
\* the incident ids the list tool is called with
ListIncidentIds == {"PINCIDENT123", ""}
AlertIds == {"PALERT123", "PALERT456"}

\* the keyword arguments of the alert queries the list tool is called with
ToolAlertQueryKwargs ==
    {EmptyDict,
     [limit |-> None],
     [limit |-> Some(1)],
     [limit |-> Some(2)],
     [limit |-> Some(3)],
     [limit |-> Some(100)],
     [status |-> Some(<<"triggered">>), limit |-> Some(25)],
     [since |-> Some(Naive(2023, 6, 1, 0, 0, 0)),
      sort_by |-> Some(<<"created_at:desc", "resolved_at:asc">>),
      limit |-> Some(2)]}

\* the alert queries the list tool is called with
ToolAlertQueries == {AlertQueryFields(kw) : kw \in ToolAlertQueryKwargs}

\* limit or fallback: None and 0 are falsy
LimitOr(limit, fallback) ==
    IF IsNone(limit) \/ Get(limit) = 0 THEN fallback ELSE Get(limit)

list_alerts_entity(incident_id) == "incidents/" \o incident_id \o "/alerts"

\* as get_alert_path, with the alert addressed outside its incident
get_alert_path_unscoped(incident_id, alert_id) == "/alerts/" \o alert_id

get_alert_path(incident_id, alert_id) ==
    "/incidents/" \o incident_id \o "/alerts/" \o alert_id

\* as list_alerts_maximum_records, with the model's default as the fallback
list_alerts_maximum_records_model_default(q) == LimitOr(q.limit, MAX_RESULTS)

\* the cap list_alerts hands to paginate
list_alerts_maximum_records(q) == LimitOr(q.limit, 100)

\* list_alerts(incident_id, query_model), up to the call of paginate, for a
\* query_model among queries, built from the keyword arguments kw
list_alerts_of(queries) ==
    /\ pc = "idle"
    /\ \E incident_id \in ListIncidentIds, kw \in ToolAlertQueryKwargs :
        LET q == AlertQueryFields(kw)
        IN /\ q \in queries
           /\ tool' = "list_alerts"
           /\ args' = [incident_id |-> incident_id]
           /\ cls' = "AlertQuery"
           /\ kwargs' = kw
           /\ query' = Some(q)
           /\ params' = Some(AlertQuery_to_params(q))
           /\ PaginateStart(list_alerts_entity(incident_id), AlertQuery_to_params(q),
                            list_alerts_maximum_records(q))

list_alerts == list_alerts_of(ToolAlertQueries)

\* the raw items paginate returned
PaginateResponse(entity, u, acc) == [k \in 1..Len(acc) |-> RawItem(entity, u, acc[k])]

\* as ValidateAll, with the records collected newest first
ValidateAll_reversed(outcomes) ==
    IF \A k \in 1..Len(outcomes) : outcomes[k].ok
    THEN Validated([k \in 1..Len(outcomes) |-> outcomes[Len(outcomes) + 1 - k].record])
    ELSE ValidationError

\* as ValidateAll, with the items that fail validation left out
ValidateAll_skips_invalid(outcomes) ==
    Validated([k \in 1..Len(SelectSeq(outcomes, LAMBDA o : o.ok)) |->
                  SelectSeq(outcomes, LAMBDA o : o.ok)[k].record])

\* [Model(**item) for item in response]: the records in the order of the
\* items, or the validation error of an item
ValidateAll(outcomes) ==
    IF \A k \in 1..Len(outcomes) : outcomes[k].ok
    THEN Validated([k \in 1..Len(outcomes) |-> outcomes[k].record])
    ELSE ValidationError

\* the response of paginate to the list tool
paginate_response == PaginateResponse(Get(request).entity, upstream, results)

\* what the list tool makes of the items paginate returned
ListOutcome ==
    IF tool = "list_alerts"
    THEN ValidateAll([k \in 1..Len(paginate_response) |->
                         Alert_model_validate(paginate_response[k])])
    ELSE ValidateAll([k \in 1..Len(paginate_response) |->
                         EventOrchestration_model_validate(paginate_response[k])])

\* paginate has returned: the list tool validates every item and returns the
\* envelope ListResponseModel(response=records)
ListReturn ==
    /\ pc = "paginate"
    /\ ~PaginateContinues(results, has_more, Get(request).maximum_records)
    /\ IF ListOutcome.ok
       THEN /\ result' = Some([response |-> ListOutcome.record])
            /\ raised' = None
            /\ pc' = "returned"
       ELSE /\ result' = None
            /\ raised' = Some("ValidationError")
            /\ pc' = "raised"
    /\ UNCHANGED <<queryVars, tool, args, upstream, request, cursor, has_more, results,
                   calls, fault>>

\* as Get_tool, with an error of rget caught: the tool asks once more and
\* then gives up with an error of its own
Get_tool_retries(name, ids, path, validated) ==
    /\ tool' = name
    /\ args' = ids
    /\ request' = Some([path |-> path])
    /\ \/ \E response \in DOMAIN validated :
            /\ upstream' = response
            /\ calls' = calls + 1
            /\ fault' = None
            /\ IF validated[response].ok
               THEN /\ result' = Some(validated[response].record)
                    /\ raised' = None
                    /\ pc' = "returned"
               ELSE /\ result' = None
                    /\ raised' = Some("ValidationError")
                    /\ pc' = "raised"
       \/ \E e \in CollaboratorErrors :
            /\ upstream' = JNull
            /\ calls' = calls + 2
            /\ fault' = Some(e)
            /\ result' = None
            /\ raised' = Some("RuntimeError")
            /\ pc' = "raised"
    /\ UNCHANGED <<queryVars, cursor, has_more, results>>

\* a get tool: one rget of the path, then the validation of the answer; when
\* rget raises, nothing is delivered and the error leaves the tool as it is
Get_tool(name, ids, path, validated) ==
    /\ tool' = name
    /\ args' = ids
    /\ request' = Some([path |-> path])
    /\ calls' = calls + 1
    /\ \/ \E response \in DOMAIN validated :
            /\ upstream' = response
            /\ fault' = None
            /\ IF validated[response].ok
               THEN /\ result' = Some(validated[response].record)
                    /\ raised' = None
                    /\ pc' = "returned"
               ELSE /\ result' = None
                    /\ raised' = Some("ValidationError")
                    /\ pc' = "raised"
       \/ \E e \in CollaboratorErrors :
            /\ upstream' = JNull
            /\ fault' = Some(e)
            /\ result' = None
            /\ raised' = Some(e)
            /\ pc' = "raised"
    /\ UNCHANGED <<queryVars, cursor, has_more, results>>

\* get_alert(incident_id, alert_id)
get_alert ==
    /\ pc = "idle"
    /\ \E incident_id \in IncidentIds, alert_id \in AlertIds :
        Get_tool("get_alert", [incident_id |-> incident_id, alert_id |-> alert_id],
                 get_alert_path(incident_id, alert_id), [response \in AlertPayloads |-> Alert_model_validate(response)])

(***************************************************************************)
(* pagerduty_mcp/tools/event_orchestrations.py                             *)
(***************************************************************************)
OrchestrationIds == {"b02e973d", "empty-orchestration-id"}

\* the queries list_event_orchestrations is called with
ToolEventOrchestrationQueries ==
    {EventOrchestrationQueryFields(kw) :
        kw \in {EmptyDict,
                [limit |-> Some(1)],
                [limit |-> Some(25), sort_by |-> Some("name:asc")],
                [limit |-> None, offset |-> None, sort_by |-> None]}}

\* list_event_orchestrations(query_model), up to the call of paginate
list_event_orchestrations ==
    /\ pc = "idle"
    /\ \E q \in ToolEventOrchestrationQueries :
        /\ tool' = "list_event_orchestrations"
        /\ args' = EmptyDict
        /\ cls' = "EventOrchestrationQuery"
        /\ query' = Some(q)
        /\ params' = Some(EventOrchestrationQuery_to_params(q))
        /\ PaginateStart("event_orchestrations", EventOrchestrationQuery_to_params(q),
                         PAGINATE_DEFAULT_MAXIMUM)
    /\ UNCHANGED kwargs

\* as get_event_orchestration_validate, with the answer never unwrapped
get_event_orchestration_validate_bare(response) ==
    EventOrchestration_model_validate(response)

\* as get_event_orchestration_validate, with the record built from the answer
\* without validation (model_construct)
get_event_orchestration_validate_construct(response) ==
    Validated(ModelRecord(IF IsDict(response) /\ HasKey(response, "orchestration")
                          THEN Item(response, "orchestration")
                          ELSE response,
                          EventOrchestrationRequired, EventOrchestrationOptional,
                          "event_orchestration"))

\* the validation get_event_orchestration applies to the answer of rget
get_event_orchestration_validate(response) ==
    IF IsDict(response) /\ HasKey(response, "orchestration")
    THEN EventOrchestration_model_validate(Item(response, "orchestration"))
    ELSE EventOrchestration_model_validate(response)

\* get_event_orchestration(orchestration_id)
get_event_orchestration ==
    /\ pc = "idle"
    /\ \E orchestration_id \in OrchestrationIds :
        Get_tool("get_event_orchestration", [orchestration_id |-> orchestration_id],
                 "/event_orchestrations/" \o orchestration_id,
                 [response \in OrchestrationPayloads |->
                     get_event_orchestration_validate(response)])

\* as get_event_orchestration_router, with the answer validated directly
\* instead of through from_api_response
get_event_orchestration_router_model_validate ==
    /\ pc = "idle"
    /\ \E orchestration_id \in OrchestrationIds :
        Get_tool("get_event_orchestration_router", [orchestration_id |-> orchestration_id],
                 "/event_orchestrations/" \o orchestration_id \o "/router",
                 [response \in RouterPayloads |->
                     EventOrchestrationRouter_model_validate(response)])

\* get_event_orchestration_router(orchestration_id)
get_event_orchestration_router ==
    /\ pc = "idle"
    /\ \E orchestration_id \in OrchestrationIds :
        Get_tool("get_event_orchestration_router", [orchestration_id |-> orchestration_id],
                 "/event_orchestrations/" \o orchestration_id \o "/router",
                 [response \in RouterPayloads |->
                     EventOrchestrationRouter_from_api_response(response)])

(***************************************************************************)
(* One tool invocation                                                     *)
(***************************************************************************)
Init ==
    /\ pc = "idle"
    /\ cls = ""
    /\ kwargs = EmptyDict
    /\ query = None
    /\ params = None
    /\ raised = None
    /\ ToolIdle

Next ==
    \/ list_alerts
    \/ get_alert
    \/ list_event_orchestrations
    \/ get_event_orchestration
    \/ get_event_orchestration_router
    \/ FetchPage
    \/ FetchPageRaises
    \/ ListReturn

Spec == Init /\ [][Next]_vars

\* the alert queries whose cap is below the fallback cap
ShortAlertQueries == {q \in ToolAlertQueries : list_alerts_maximum_records(q) < 100}

list_alerts_short == list_alerts_of(ShortAlertQueries)

FairNext ==
    \/ list_alerts_short
    \/ get_alert
    \/ list_event_orchestrations
    \/ get_event_orchestration
    \/ get_event_orchestration_router
    \/ FetchPage
    \/ FetchPageRaises
    \/ ListReturn

\* paginate and the list tool run to their end: each step is taken once it is
\* the next statement of the synchronous call.  The invocations are those of
\* Spec with a cap of at most 100: list_alerts with a limit below 100, and
\* list_event_orchestrations under paginate's own cap.
FairSpec == Init /\ [][FairNext]_vars /\ WF_vars(FetchPage) /\ WF_vars(ListReturn)

(***************************************************************************)
(* Properties of the query models (checked under QuerySpec)                *)
(***************************************************************************)
AlertQueryMapped == pc = "mapped" /\ cls = "AlertQuery"
EventOrchestrationQueryMapped == pc = "mapped" /\ cls = "EventOrchestrationQuery"

\* the wire key of each AlertQuery field
AlertWireKey ==
    [status |-> "statuses[]", severity |-> "severities[]", since |-> "since",
     until |-> "until", service_ids |-> "service_ids[]", sort_by |-> "sort_by",
     limit |-> "limit"]

AlertListFields == {"status", "severity", "service_ids", "sort_by"}
AlertFilterFields == AlertListFields \cup {"since", "until"}

NonNullFields(q, names) == {f \in names : q[f] # None}

\* C1 as stated: to_params of an AlertQuery holds exactly one wire key for each
\* non-null field (limit included) and no other key.
C1_KeyPerNonNullField ==
    AlertQueryMapped =>
        DOMAIN Get(params)
            = {AlertWireKey[f] : f \in NonNullFields(Get(query), DOMAIN AlertWireKey)}

\* C1 amended: to_params of an AlertQuery holds exactly the wire keys of the
\* filter fields (status, severity, since, until, service_ids, sort_by) that are
\* non-null and, when list-valued, non-empty; it never holds a limit key, and it
\* is empty when all six filter fields are null.
C1_KeyPerNonEmptyFilter ==
    AlertQueryMapped =>
        LET q == Get(query)
            present == {f \in NonNullFields(q, AlertFilterFields) :
                            f \in AlertListFields => Len(Get(q[f])) > 0}
        IN /\ DOMAIN Get(params) = {AlertWireKey[f] : f \in present}
           /\ "limit" \notin DOMAIN Get(params)
           /\ NonNullFields(q, AlertFilterFields) = {} => Get(params) = EmptyDict

\* a query with a limit, an empty status list and a since date was mapped
C1_Witness ==
    /\ AlertQueryMapped
    /\ Get(query).limit = Some(25)
    /\ Get(query).status = Some(<<>>)
    /\ Get(query).severity = Some(<<"critical">>)
    /\ Get(query).since # None
    /\ DOMAIN Get(params) = {"severities[]", "since"}

AlertQueryAttempted == pc # "start" /\ cls = "AlertQuery"
ConstructionFailed == raised = Some("ValidationError") /\ query = None /\ params = None
LimitPassed(n) == "limit" \in DOMAIN kwargs /\ kwargs["limit"] = Some(n)

\* the list-valued arguments hold only members of their enumerations
AlertListArgumentsValid ==
    /\ ValidOptionalList(kwargs["status"], AlertStatus)
    /\ ValidOptionalList(kwargs["severity"], AlertSeverity)
    /\ ValidOptionalList(kwargs["sort_by"], AlertSortBy)

\* C8: AlertQuery(limit=0) and AlertQuery(limit=n), n > 1000, fail with a
\* validation error and leave no query object and no parameter mapping;
\* with a limit in 1..1000 (and valid filters) the construction succeeds.
C8_AlertLimitValidated ==
    AlertQueryAttempted =>
        \A n \in AlertLimitSamples :
            LimitPassed(n) =>
                /\ (n = 0 \/ n > 1000) => ConstructionFailed
                /\ (n \in 1..1000 /\ AlertListArgumentsValid) =>
                        /\ raised = None
                        /\ query # None
                        /\ Get(query).limit = Some(n)

\* AlertQuery(limit=1001), valid otherwise, was rejected
C8_Witness ==
    /\ AlertQueryAttempted
    /\ LimitPassed(1001)
    /\ AlertListArgumentsValid
    /\ ConstructionFailed

EventOrchestrationQueryAttempted == pc # "start" /\ cls = "EventOrchestrationQuery"

\* C9: EventOrchestrationQuery() has limit = DEFAULT_PAGINATION_LIMIT, offset =
\* None and sort_by = "name:asc"; to_params holds the keys limit, offset and
\* sort_by exactly for the non-null fields, each with the field's own value,
\* and is empty when all three are null.
C9_DefaultsAndParams ==
    /\ (EventOrchestrationQueryAttempted /\ kwargs = EmptyDict) =>
            /\ query # None
            /\ Get(query).limit = Some(DEFAULT_PAGINATION_LIMIT)
            /\ Get(query).offset = None
            /\ Get(query).sort_by = Some("name:asc")
    /\ EventOrchestrationQueryMapped =>
            LET q == Get(query)
                nonNull == NonNullFields(q, {"limit", "offset", "sort_by"})
            IN /\ DOMAIN Get(params) = nonNull
               /\ \A f \in nonNull : Some(Get(params)[f]) = q[f]
               /\ nonNull = {} => Get(params) = EmptyDict

\* EventOrchestrationQuery() was constructed and mapped
C9_Witness ==
    /\ EventOrchestrationQueryMapped
    /\ kwargs = EmptyDict
    /\ Get(params) = [limit |-> DEFAULT_PAGINATION_LIMIT, sort_by |-> "name:asc"]

\* C10: EventOrchestrationQuery fails with a validation error, and leaves no
\* query object and no parameter mapping, when limit = 0, limit exceeds
\* MAXIMUM_PAGINATION_LIMIT, offset is negative or sort_by is not enumerated.
C10_EventOrchestrationQueryValidated ==
    EventOrchestrationQueryAttempted =>
        LET passed(f) == f \in DOMAIN kwargs /\ kwargs[f] # None
            bad == \/ passed("limit") /\ Get(kwargs["limit"]) = 0
                   \/ passed("limit") /\ Get(kwargs["limit"]) > MAXIMUM_PAGINATION_LIMIT
                   \/ passed("offset") /\ Get(kwargs["offset"]) < 0
                   \/ passed("sort_by") /\ Get(kwargs["sort_by"]) = "invalid_sort"
        IN /\ bad => ConstructionFailed
           /\ ~bad => raised = None /\ query # None

\* EventOrchestrationQuery(offset=-1) was rejected
C10_Witness ==
    /\ EventOrchestrationQueryAttempted
    /\ kwargs = [offset |-> Some(0 - 1)]
    /\ ConstructionFailed

(***************************************************************************)
(* Properties of the tools (checked under Spec and FairSpec)               *)
(***************************************************************************)
ListTools == {"list_alerts", "list_event_orchestrations"}
Finished == pc \in {"returned", "raised"}

\* the outcome of the finished invocation, as model_validate gives it
Outcome ==
    [ok |-> pc = "returned", record |-> IF pc = "returned" THEN Get(result) ELSE EmptyDict]

\* the number of items the upstream holds in one pass over its pages
UpstreamTotal == Sum(upstream.sizes)

\* the upstream holds at least n items
UpstreamHolds(n) == IF upstream.endless THEN UpstreamTotal > 0 ELSE UpstreamTotal >= n

\* item k of the concatenation of the upstream's pages in page order
ConcatenatedItem(k) == ((k - 1) % UpstreamTotal) + 1

\* C2: with cap N, the items paginate has accumulated are never more than N,
\* they are always the first items of the concatenation of the pages in page
\* order, and when the upstream holds at least N items and no page fetch
\* raises paginate returns exactly N of them.
C2_CappedPrefix ==
    tool \in ListTools =>
        LET N == Get(request).maximum_records
        IN /\ N >= 1
           /\ Len(results) <= N
           /\ \A k \in 1..Len(results) : results[k] = ConcatenatedItem(k)
           /\ (Finished /\ IsNone(fault) /\ UpstreamHolds(N)) => Len(results) = N

\* with cap 3 and two pages of two items, the first three items were returned
C2_Witness ==
    /\ tool = "list_alerts"
    /\ pc = "returned"
    /\ Get(request).maximum_records = 3
    /\ upstream.sizes = <<2, 2>>
    /\ ~upstream.endless
    /\ results = <<1, 2, 3>>

\* a page fetch is visible as a change of paginate's own variables
PageFetched == <<cursor, has_more, results>>' # <<cursor, has_more, results>>

\* the upstream ends at some page, or every page it delivers holds an item
UpstreamEndsOrDelivers ==
    ~upstream.endless \/ \A c \in 1..Len(upstream.sizes) : upstream.sizes[c] >= 1

\* C3: a page is fetched only while the accumulated items are fewer than the
\* cap and the last page signalled more pages, and every paginated fetch
\* ends (the list tool returns or raises) when the upstream ends at some
\* page or delivers at least one item on every page.
C3_PaginateTerminates ==
    /\ [][(pc = "paginate" /\ PageFetched) =>
              /\ Len(results) < Get(request).maximum_records
              /\ has_more]_vars
    /\ (pc = "paginate" /\ UpstreamEndsOrDelivers) ~> Finished

\* an endless upstream was read until the cap of 100 was reached
C3_Witness ==
    /\ tool = "list_event_orchestrations"
    /\ pc = "returned"
    /\ upstream.endless
    /\ upstream.sizes = <<1, 2>>
    /\ cursor = 2
    /\ Len(results) = 100

GetFinished(name) == tool = name /\ Finished

\* C4: get_event_orchestration gives the same outcome (the same record, or the
\* same validation failure) for the bare fields F as for {"orchestration": F},
\* whatever the orchestration id: the outcome on either payload is the one
\* the tool's validation gives on the other.
C4_OrchestrationShapesAgree ==
    GetFinished("get_event_orchestration") =>
        \A F \in OrchestrationFieldSets :
            /\ upstream = F =>
                    Outcome = get_event_orchestration_validate(Wrap("orchestration", F))
            /\ upstream = Wrap("orchestration", F) =>
                    /\ Outcome = get_event_orchestration_validate(F)
                    /\ Outcome = EventOrchestration_model_validate(F)

\* the wrapped sample orchestration was returned as a record
C4_Witness ==
    /\ tool = "get_event_orchestration"
    /\ pc = "returned"
    /\ upstream = Wrap("orchestration", SampleOrchestration("b02e973d"))
    /\ Get(result)["id"] = JStr("b02e973d")
    /\ Get(result)["type"] = JStr("event_orchestration")

\* C5: get_event_orchestration_router gives the same outcome for the bare path
\* P as for {"orchestration_path": P}; a returned record has the one field
\* orchestration_path, holding the fields of P; a response that has the key
\* orchestration_path is validated as it is.
C5_RouterShapesAgree ==
    GetFinished("get_event_orchestration_router") =>
        /\ \A P \in RouterPaths :
            /\ upstream = P =>
                    Outcome = EventOrchestrationRouter_from_api_response(
                                  Wrap("orchestration_path", P))
            /\ upstream = Wrap("orchestration_path", P) =>
                    Outcome = EventOrchestrationRouter_from_api_response(P)
            /\ (upstream \in {P, Wrap("orchestration_path", P)} /\ pc = "returned") =>
                    /\ DOMAIN Get(result) = {"orchestration_path"}
                    /\ \A f \in {"type", "parent", "self", "sets", "catch_all"} :
                            Get(result).orchestration_path[f] = Item(P, f)
        /\ (IsDict(upstream) /\ HasKey(upstream, "orchestration_path")) =>
                /\ RouterNormalized(upstream) = upstream
                /\ Outcome = EventOrchestrationRouter_model_validate(upstream)
        /\ RouterNormalized(RouterNormalized(upstream)) = RouterNormalized(upstream)

\* the bare sample path was returned as a router record
C5_Witness ==
    /\ tool = "get_event_orchestration_router"
    /\ pc = "returned"
    /\ upstream = SampleRouterPath("1")
    /\ Get(result).orchestration_path["type"] = JStr("router")

\* the request paths the tests expect for the incident and alert ids
ExpectedAlertsEntity ==
    [incident_id \in IncidentIds |->
        CASE incident_id = "PINCIDENT123" -> "incidents/PINCIDENT123/alerts"
          [] incident_id = "PINCIDENT456" -> "incidents/PINCIDENT456/alerts"
          [] incident_id = "" -> "incidents//alerts"]

\* C6: list_alerts(I, q) asks for the entity incidents/I/alerts whatever q
\* holds, get_alert(I, A) asks for the path /incidents/I/alerts/A, and two
\* different incident ids give two different paths for the same alert id.
C6_IncidentScopedPaths ==
    /\ (tool = "list_alerts" /\ pc # "idle") =>
            Get(request).entity = ExpectedAlertsEntity[args.incident_id]
    /\ (tool = "get_alert" /\ pc # "idle") =>
            Get(request).path
                = "/" \o ExpectedAlertsEntity[args.incident_id] \o "/" \o args.alert_id
    /\ \A i1, i2 \in IncidentIds, a \in AlertIds :
            i1 # i2 => /\ get_alert_path(i1, a) # get_alert_path(i2, a)
                       /\ list_alerts_entity(i1) # list_alerts_entity(i2)

\* get_alert("PINCIDENT456", "PALERT123") asked for the alert under its incident
C6_Witness ==
    /\ tool = "get_alert"
    /\ pc = "returned"
    /\ args = [incident_id |-> "PINCIDENT456", alert_id |-> "PALERT123"]
    /\ Get(request).path = "/incidents/PINCIDENT456/alerts/PALERT123"

\* C7: list_alerts caps paginate at the query's limit when the query has one
\* and at 100 when it has none, and returns no more records than the limit.
C7_CapIsLimitOr100 ==
    (tool = "list_alerts" /\ pc # "idle") =>
        LET limit == Get(query).limit
            cap == Get(request).maximum_records
        IN /\ limit # None => cap = Get(limit)
           /\ limit = None => cap = 100
           /\ (pc = "returned" /\ limit # None) => Len(Get(result).response) <= Get(limit)
           /\ pc = "returned" => Len(Get(result).response) <= cap

\* a query without a limit was answered with 100 records
C7_Witness ==
    /\ tool = "list_alerts"
    /\ pc = "returned"
    /\ Get(query).limit = None
    /\ Get(request).maximum_records = 100
    /\ Len(Get(result).response) = 100

(***************************************************************************)
(* Failures                                                                *)
(***************************************************************************)
CollaboratorRaised == ~IsNone(fault)

\* C11: in each of the five tools, when the collaborator raises on the get or
\* on a page fetch, the invocation ends with that same error and without a
\* result, and nothing more is asked of the collaborator: no page is fetched
\* and no call is made afterwards; an invocation makes exactly one call to
\* rget or to paginate.
C11_CollaboratorErrorPropagates ==
    /\ [](CollaboratorRaised => /\ pc = "raised"
                                /\ raised = fault
                                /\ result = None)
    /\ [](calls = IF pc = "idle" THEN 0 ELSE 1)
    /\ [][CollaboratorRaised => /\ calls' = calls
                                /\ request' = request
                                /\ ~PageFetched]_vars

\* the fetch of the second page of alerts raised after the first page was
\* accumulated, and list_alerts ended with that error
C11_Witness ==
    /\ tool = "list_alerts"
    /\ upstream.sizes = <<2, 1>>
    /\ cursor = 2
    /\ fault = Some("HttpError")
    /\ raised = Some("HttpError")
    /\ result = None
    /\ calls = 1

\* a list tool ended without an error of the collaborator
ListFinished == tool \in ListTools /\ Finished /\ IsNone(fault)

\* the malformed item of the upstream is among the items paginate returned
MalformedFetched == \E k \in 1..Len(results) : results[k] = upstream.bad

\* the required fields of the records of each list tool
ListRequiredFields ==
    [list_alerts |-> DOMAIN AlertRequired,
     list_event_orchestrations |-> DOMAIN EventOrchestrationRequired]

\* C12: a list tool ends either with an envelope in which every item of the
\* fetch is a validated record (every required field present), or with an
\* error: when one fetched item is malformed (a required field missing, a
\* wrong type, an unrecognized enumeration value) the call fails with a
\* validation error and returns no envelope.
C12_AllItemsOrError ==
    ListFinished =>
        IF MalformedFetched
        THEN /\ pc = "raised"
             /\ raised = Some("ValidationError")
             /\ result = None
        ELSE /\ pc = "returned"
             /\ raised = None
             /\ Len(Get(result).response) = Len(results)
             /\ \A k \in 1..Len(results) :
                    \A f \in ListRequiredFields[tool] :
                        Get(result).response[k][f] # JNull

\* three orchestrations were fetched, the third with a list for its route
\* count, and list_event_orchestrations failed
C12_Witness ==
    /\ tool = "list_event_orchestrations"
    /\ pc = "raised"
    /\ raised = Some("ValidationError")
    /\ upstream.sizes = <<2, 1>>
    /\ upstream.bad = 3
    /\ results = <<1, 2, 3>>
    /\ result = None

\* the payload j is a dict that has every one of the given keys
HasFields(j, keys) == IsDict(j) /\ \A f \in keys : HasKey(j, f)

\* the payload has neither the wrapper key nor the required fields of the
\* bare entity
NeitherShape(j, wrapper, required) ==
    /\ ~(IsDict(j) /\ HasKey(j, wrapper))
    /\ ~HasFields(j, DOMAIN required)

\* the answer of rget to the finished get tool has neither expected shape
AnswerHasNeitherShape ==
    \/ /\ GetFinished("get_event_orchestration")
       /\ NeitherShape(upstream, "orchestration", EventOrchestrationRequired)
    \/ /\ GetFinished("get_event_orchestration_router")
       /\ NeitherShape(upstream, "orchestration_path", EventOrchestrationPathRequired)

\* C13: get_event_orchestration and get_event_orchestration_router never turn
\* an answer that has neither expected shape into a record: the call fails
\* with a validation error, and apart from the collaborator's own errors a
\* validation error is the only error these tools end with.
C13_NeitherShapeFailsValidation ==
    /\ (AnswerHasNeitherShape /\ IsNone(fault)) =>
            /\ pc = "raised"
            /\ raised = Some("ValidationError")
            /\ result = None
    /\ (tool \in {"get_event_orchestration", "get_event_orchestration_router"}
            /\ pc = "raised" /\ IsNone(fault)) =>
            raised = Some("ValidationError")

\* an orchestration under the key "orchestrations" was rejected
C13_Witness ==
    /\ tool = "get_event_orchestration"
    /\ upstream = Wrap("orchestrations", SampleOrchestration("b02e973d"))
    /\ IsNone(fault)
    /\ pc = "raised"
    /\ raised = Some("ValidationError")
    /\ result = None

\* C14: list_alerts and get_alert called with an empty incident id issue no
\* request to the collaborator (and none for a path with an empty incident
\* segment).
C14_EmptyIncidentIdRefused ==
    (tool \in {"list_alerts", "get_alert"} /\ args.incident_id = "") =>
        /\ request = None
        /\ calls = 0

\* C15: list_event_orchestrations caps its paginated fetch at the limit of
\* the query when it has one, and the envelope it returns for a query with
\* limit L holds at most L records.
C15_CapIsQueryLimit ==
    (tool = "list_event_orchestrations" /\ pc # "idle") =>
        LET limit == Get(query).limit
        IN /\ limit # None => Get(request).maximum_records = Get(limit)
           /\ (pc = "returned" /\ limit # None) =>
                    Len(Get(result).response) <= Get(limit)

(***************************************************************************)
(* The limit of an alert query                                             *)
(***************************************************************************)
ListAlertsCalled == tool = "list_alerts" /\ pc # "idle"

\* the wire parameters of every valid alert query of the query inputs
AlertQueryWireKeys ==
    UNION {DOMAIN AlertQuery_to_params(AlertQueryFields(kw)) :
              kw \in {k \in AlertQueryKwargs : AlertQueryValid(k)}}

\* C16: to_params of an AlertQuery has no limit key whatever the limit; in
\* list_alerts the limit reaches paginate as maximum_records and never as a
\* wire parameter: the query status=["triggered"], limit=25 gives the
\* params {"statuses[]": ["triggered"]} and maximum_records 25.
C16_LimitOnlyAsCap ==
    /\ "limit" \notin AlertQueryWireKeys
    /\ ListAlertsCalled =>
        LET sent == Get(request).params
        IN /\ sent = Get(params)
           /\ "limit" \notin DOMAIN sent
           /\ DOMAIN sent \subseteq {AlertWireKey[f] : f \in AlertFilterFields}
           /\ Get(query).limit # None =>
                    Get(request).maximum_records = Get(Get(query).limit)
           /\ kwargs = [status |-> Some(<<"triggered">>), limit |-> Some(25)] =>
                    /\ sent = ("statuses[]" :> <<"triggered">>)
                    /\ Get(request).maximum_records = 25

\* list_alerts returned for the query status=["triggered"], limit=25
C16_Witness ==
    /\ tool = "list_alerts"
    /\ pc = "returned"
    /\ Get(query).status = Some(<<"triggered">>)
    /\ Get(query).limit = Some(25)
    /\ Get(request).params = ("statuses[]" :> <<"triggered">>)
    /\ Get(request).maximum_records = 25

\* C17: an AlertQuery built without a limit has the limit 1000 and
\* list_alerts caps its fetch at 1000; the cap is always in 1..1000, and it
\* is 100 exactly when the limit was given as null or as 100.
C17_DefaultLimitAndFallback ==
    ListAlertsCalled =>
        LET cap == Get(request).maximum_records
            given == "limit" \in DOMAIN kwargs
        IN /\ ~given => /\ Get(query).limit = Some(1000)
                        /\ cap = 1000
           /\ cap \in 1..1000
           /\ cap = 100 <=> (given /\ kwargs.limit \in {None, Some(100)})

\* a query built without a limit was answered under the cap 1000
C17_Witness ==
    /\ tool = "list_alerts"
    /\ pc = "returned"
    /\ kwargs = EmptyDict
    /\ Get(query).limit = Some(1000)
    /\ Get(request).maximum_records = 1000
    /\ Len(Get(result).response) = 4

(***************************************************************************)
(* The envelope of a list tool                                             *)
(***************************************************************************)
\* the id the upstream gives item i of the list tool's entity
UpstreamItemId(i) ==
    JStr((IF tool = "list_alerts" THEN "PALERT" ELSE "ORCH") \o ToString(i))

\* C18: the envelope a list tool returns has the one field response, which
\* holds one record per item paginate returned, in the order of the items
\* and as many as the items; an empty fetch gives an empty response.
C18_EnvelopeKeepsItems ==
    (tool \in ListTools /\ pc = "returned") =>
        LET response == Get(result).response
        IN /\ DOMAIN Get(result) = {"response"}
           /\ Len(response) = Len(results)
           /\ \A k \in 1..Len(results) :
                /\ response[k]["id"] = UpstreamItemId(results[k])
                /\ response[k]["id"] = Item(paginate_response[k], "id")
           /\ results = <<>> => response = <<>>

\* three orchestrations on two pages were returned in page order
C18_Witness ==
    /\ tool = "list_event_orchestrations"
    /\ pc = "returned"
    /\ upstream.sizes = <<1, 2>>
    /\ ~upstream.endless
    /\ Len(Get(result).response) = 3
    /\ Get(result).response[1]["id"] = JStr("ORCH1")
    /\ Get(result).response[2]["id"] = JStr("ORCH2")
    /\ Get(result).response[3]["id"] = JStr("ORCH3")

=============================================================================
